---- MODULE Spec2Model ----
(***************************************************************************)
(* csg_surface_distance: CSGSurface::distance_to_surface (src/src/main.rs). *)
(*                                                                         *)
(* The crate is one pure function over f64 values.  An f64 is modelled as  *)
(* an exact real number: the inputs are small rationals, and every value   *)
(* the thirteen match arms can compute from them is kept exactly, as       *)
(*   [k |-> "surd", a, b, n, q]    the real (a + b*sqrt(n)) / q, in lowest *)
(*                                 terms, n square-free (n = 1 iff b = 0); *)
(*   [k |-> "root", s, rad, off]   the real s*sqrt(rad) + off, s = 1 or -1,*)
(*                                 rad and off surds (the torus arm takes  *)
(*                                 the square root of a surd);             *)
(*   [k |-> "inf", s], [k |-> "nan"]  what a division by zero produces.    *)
(* Rounding is not modelled: every comparison is the comparison of the     *)
(* exact reals.                                                            *)
(***************************************************************************)
EXTENDS Integers, FiniteSets, Sequences, TLC

VARIABLES surface, point, vector, result, pc

vars == <<surface, point, vector, result, pc>>

---------------------------------------------------------------------------
(* Bounds of the model. *)

\* point coordinates: 0..MaxCoord (-MaxCoord..MaxCoord for the cylinders);
\* axis-plane offsets: n/2 for n in -MaxCoord..MaxCoord
MaxCoord == 2
\* centres and apexes, and the points of the plane and torus queries: 0..MaxCentre
MaxCentre == 1
\* direction components: -MaxDir..MaxDir
MaxDir == 1
\* radii: n/2 for n in -1..MaxRadius
MaxRadius == 2
\* tangents of the cone angles: -1..MaxTan and 1/2..1/MaxTan
MaxTan == 2
\* plane and quadric coefficients: -MaxCoef..MaxCoef
MaxCoef == 1

---------------------------------------------------------------------------
(* Integer helpers. *)

AbsInt(i) == IF i < 0 THEN -i ELSE i

SgnInt(i) == IF i < 0 THEN -1 ELSE IF i = 0 THEN 0 ELSE 1

RECURSIVE Gcd(_, _)
Gcd(i, j) == IF j = 0 THEN i ELSE Gcd(j, i % j)

\* the largest c <= from with c*c dividing m (m >= 1)
RECURSIVE SquarePart(_, _)
SquarePart(m, from) ==
    IF from <= 1 THEN 1
    ELSE IF from * from <= m /\ m % (from * from) = 0 THEN from
    ELSE SquarePart(m, from - 1)

---------------------------------------------------------------------------
(* f64 values and the f64 operations distance_to_surface uses. *)

\* the real (a + b*sqrt(n)) / q, q # 0, n >= 0, in canonical form
MkSurd(a, b, n, q) ==
    LET c  == IF b = 0 \/ n = 0 THEN 1 ELSE SquarePart(n, n)
        n1 == IF b = 0 \/ n = 0 THEN 1 ELSE n \div (c * c)
        b1 == IF b = 0 \/ n = 0 THEN 0 ELSE b * c
        a2 == IF n1 = 1 THEN a + b1 ELSE a
        b2 == IF n1 = 1 THEN 0 ELSE b1
        g  == Gcd(Gcd(AbsInt(a2), AbsInt(b2)), AbsInt(q))
        sq == SgnInt(q)
    IN  [k |-> "surd", a |-> (sq * a2) \div g, b |-> (sq * b2) \div g,
         n |-> n1, q |-> AbsInt(q) \div g]

Rat(p, q) == MkSurd(p, 0, 1, q)

Zero == Rat(0, 1)

NaN == [k |-> "nan"]

Inf(s) == [k |-> "inf", s |-> s]

\* two surds of one field Q(sqrt(n))
SameField(x, y) == x.b = 0 \/ y.b = 0 \/ x.n = y.n

FieldOf(x, y) == IF x.b # 0 THEN x.n ELSE y.n

NegS(x) == MkSurd(-x.a, -x.b, x.n, x.q)

AddS(x, y) ==
    IF SameField(x, y)
    THEN MkSurd(x.a * y.q + y.a * x.q, x.b * y.q + y.b * x.q, FieldOf(x, y), x.q * y.q)
    ELSE [k |-> "unrepresentable"]

MulS(x, y) ==
    IF SameField(x, y)
    THEN MkSurd(x.a * y.a + x.b * y.b * FieldOf(x, y), x.a * y.b + x.b * y.a,
                FieldOf(x, y), x.q * y.q)
    ELSE [k |-> "unrepresentable"]

\* the sign of a + b*sqrt(n): of a when a*a > b*b*n, of b otherwise
SignS(x) ==
    LET sa == SgnInt(x.a)
        sb == SgnInt(x.b)
    IN  IF sb = 0 THEN sa
        ELSE IF sa = 0 \/ sa = sb THEN sb
        ELSE IF AbsInt(x.a) \div AbsInt(x.b) >= x.n THEN sa
        ELSE IF x.a * x.a > x.b * x.b * x.n THEN sa ELSE sb

\* the sign of s*sqrt(rad) + off
SignRoot(x) ==
    LET so == SignS(x.off)
    IN  IF SignS(x.rad) = 0 THEN so
        ELSE IF so = 0 \/ so = x.s THEN x.s
        ELSE x.s * SignS(AddS(x.rad, NegS(MulS(x.off, x.off))))

Sign(x) ==
    CASE x.k = "surd" -> SignS(x)
      [] x.k = "root" -> SignRoot(x)
      [] x.k = "inf"  -> x.s

\* f64 unary minus
Neg(x) ==
    CASE x.k = "surd" -> NegS(x)
      [] x.k = "root" -> [k |-> "root", s |-> -x.s, rad |-> x.rad, off |-> NegS(x.off)]
      [] x.k = "inf"  -> Inf(-x.s)
      [] x.k = "nan"  -> NaN

\* f64 +
Add(x, y) ==
    CASE x.k = "surd" /\ y.k = "surd" -> AddS(x, y)
      [] x.k = "root" /\ y.k = "surd" -> [x EXCEPT !.off = AddS(x.off, y)]
      [] x.k = "surd" /\ y.k = "root" -> [y EXCEPT !.off = AddS(y.off, x)]

\* f64 -
Sub(x, y) == Add(x, Neg(y))

\* f64 *
Mul(x, y) == MulS(x, y)

\* f64 /: x/0 is NaN for x = 0 and an infinity of x's sign otherwise
Div(x, y) ==
    IF SignS(y) = 0
    THEN IF SignS(x) = 0 THEN NaN ELSE Inf(SignS(x))
    ELSE MulS(x, MkSurd(y.q * y.a, -(y.q * y.b), y.n, y.a * y.a - y.b * y.b * y.n))

\* f64::powi(2)
Powi2(x) == Mul(x, x)

\* f64::sqrt
Sqrt(x) ==
    IF SignS(x) < 0 THEN NaN
    ELSE IF x.b = 0 THEN MkSurd(0, 1, x.a * x.q, x.q)
    ELSE [k |-> "root", s |-> 1, rad |-> x, off |-> Zero]

\* f64::abs
Abs(x) ==
    CASE x.k = "nan" -> NaN
      [] x.k = "inf" -> Inf(1)
      [] OTHER       -> IF Sign(x) < 0 THEN Neg(x) ELSE x

\* x == 0.0
IsZero(x) == x.k \in {"surd", "root"} /\ Sign(x) = 0

\* x >= 0.0 (false of a NaN)
Ge0(x) == x.k # "nan" /\ Sign(x) >= 0

\* an angle in radians, given by its tangent p/q (q > 0): atan(p/q)
Atan(p, q) == [p |-> p, q |-> q]

\* f64::tan
Tan(angle) == Rat(angle.p, angle.q)

\* Option<f64>
None == [tag |-> "None"]

Some(v) == [tag |-> "Some", val |-> v]

---------------------------------------------------------------------------
(* pub struct Point, pub struct Vector, pub enum CSGSurface. *)

Point(x, y, z) == [x |-> Rat(x, 1), y |-> Rat(y, 1), z |-> Rat(z, 1)]

Vector(dx, dy, dz) == [dx |-> Rat(dx, 1), dy |-> Rat(dy, 1), dz |-> Rat(dz, 1)]

Sphere(x, y, z, radius) == [kind |-> "Sphere", x |-> x, y |-> y, z |-> z, radius |-> radius]

XPlane(x) == [kind |-> "XPlane", x |-> x]

YPlane(y) == [kind |-> "YPlane", y |-> y]

ZPlane(z) == [kind |-> "ZPlane", z |-> z]

Plane(a, b, c, d) == [kind |-> "Plane", a |-> a, b |-> b, c |-> c, d |-> d]

XAxisCylinder(radius) == [kind |-> "XAxisCylinder", radius |-> radius]

YAxisCylinder(radius) == [kind |-> "YAxisCylinder", radius |-> radius]

ZAxisCylinder(radius) == [kind |-> "ZAxisCylinder", radius |-> radius]

XAxisCone(x, y, z, angle) == [kind |-> "XAxisCone", x |-> x, y |-> y, z |-> z, angle |-> angle]

YAxisCone(x, y, z, angle) == [kind |-> "YAxisCone", x |-> x, y |-> y, z |-> z, angle |-> angle]

ZAxisCone(x, y, z, angle) == [kind |-> "ZAxisCone", x |-> x, y |-> y, z |-> z, angle |-> angle]

\* co is the sequence <<a, b, c, d, e, f, g, h, j, k>>
Quadric(co) ==
    [kind |-> "Quadric", a |-> co[1], b |-> co[2], c |-> co[3], d |-> co[4], e |-> co[5],
     f |-> co[6], g |-> co[7], h |-> co[8], j |-> co[9], k |-> co[10]]

XAxisTorus(x0, y0, z0, a, b, c) ==
    [kind |-> "XAxisTorus", x0 |-> x0, y0 |-> y0, z0 |-> z0, a |-> a, b |-> b, c |-> c]

AxisPlaneKinds == {"XPlane", "YPlane", "ZPlane"}

CylinderKinds == {"XAxisCylinder", "YAxisCylinder", "ZAxisCylinder"}

ConeKinds == {"XAxisCone", "YAxisCone", "ZAxisCone"}

---------------------------------------------------------------------------
(* CSGSurface::distance_to_surface, one operator per match arm.  An arm    *)
(* that ends in .abs() is split into the expression the .abs() is applied  *)
(* to (...Expr) and the arm.                                               *)

\* mutant: the z term of the distance to the centre is missing
SphereExprNoZ(self, p) ==
    LET distance_to_center == Sqrt(Add(Powi2(Sub(p.x, self.x)), Powi2(Sub(p.y, self.y))))
    IN  Sub(distance_to_center, self.radius)

SphereExpr(self, p) ==
    LET distance_to_center ==
            Sqrt(Add(Add(Powi2(Sub(p.x, self.x)), Powi2(Sub(p.y, self.y))),
                     Powi2(Sub(p.z, self.z))))
    IN  Sub(distance_to_center, self.radius)

SphereArm(self, p, v) == Some(Abs(SphereExpr(self, p)))

XPlaneT(self, p, v) == Div(Sub(self.x, p.x), v.dx)

\* mutant: a point on the plane (t = 0) is treated as behind the ray origin
XPlaneArmStrict(self, p, v) ==
    IF IsZero(v.dx) THEN None
    ELSE LET t == XPlaneT(self, p, v)
         IN  IF Ge0(t) /\ ~IsZero(t) THEN Some(t) ELSE None

XPlaneArm(self, p, v) ==
    IF IsZero(v.dx) THEN None
    ELSE LET t == XPlaneT(self, p, v)
         IN  IF Ge0(t) THEN Some(t) ELSE None

YPlaneT(self, p, v) == Div(Sub(self.y, p.y), v.dy)

YPlaneArm(self, p, v) ==
    IF IsZero(v.dy) THEN None
    ELSE LET t == YPlaneT(self, p, v)
         IN  IF Ge0(t) THEN Some(t) ELSE None

ZPlaneT(self, p, v) == Div(Sub(self.z, p.z), v.dz)

ZPlaneArm(self, p, v) ==
    IF IsZero(v.dz) THEN None
    ELSE LET t == ZPlaneT(self, p, v)
         IN  IF Ge0(t) THEN Some(t) ELSE None

\* mutant: the denominator is the squared norm of the normal
PlaneExprNoSqrt(self, p) ==
    LET numerator ==
            Add(Add(Add(Mul(self.a, p.x), Mul(self.b, p.y)), Mul(self.c, p.z)), self.d)
        denominator == Add(Add(Powi2(self.a), Powi2(self.b)), Powi2(self.c))
    IN  Div(numerator, denominator)

PlaneExpr(self, p) ==
    LET numerator ==
            Add(Add(Add(Mul(self.a, p.x), Mul(self.b, p.y)), Mul(self.c, p.z)), self.d)
        denominator == Sqrt(Add(Add(Powi2(self.a), Powi2(self.b)), Powi2(self.c)))
    IN  Div(numerator, denominator)

\* mutant: a zero normal is rejected
PlaneArmGuarded(self, p, v) ==
    IF IsZero(self.a) /\ IsZero(self.b) /\ IsZero(self.c) THEN None
    ELSE Some(Abs(PlaneExpr(self, p)))

PlaneArm(self, p, v) == Some(Abs(PlaneExpr(self, p)))

XAxisCylinderExpr(self, p) ==
    LET distance_to_axis == Sqrt(Add(Powi2(p.y), Powi2(p.z)))
    IN  Sub(distance_to_axis, self.radius)

XAxisCylinderArm(self, p, v) == Some(Abs(XAxisCylinderExpr(self, p)))

\* mutant: the transverse plane of the x-axis cylinder is used
YAxisCylinderExprYZ(self, p) ==
    LET distance_to_axis == Sqrt(Add(Powi2(p.y), Powi2(p.z)))
    IN  Sub(distance_to_axis, self.radius)

YAxisCylinderExpr(self, p) ==
    LET distance_to_axis == Sqrt(Add(Powi2(p.x), Powi2(p.z)))
    IN  Sub(distance_to_axis, self.radius)

YAxisCylinderArm(self, p, v) == Some(Abs(YAxisCylinderExpr(self, p)))

ZAxisCylinderExpr(self, p) ==
    LET distance_to_axis == Sqrt(Add(Powi2(p.x), Powi2(p.y)))
    IN  Sub(distance_to_axis, self.radius)

ZAxisCylinderArm(self, p, v) == Some(Abs(ZAxisCylinderExpr(self, p)))

XAxisConeExpr(self, p) ==
    LET tan_angle == Tan(self.angle)
        distance_to_apex == Sqrt(Add(Powi2(Sub(p.y, self.y)), Powi2(Sub(p.z, self.z))))
    IN  Sub(Abs(Sub(p.x, self.x)), Mul(distance_to_apex, tan_angle))

XAxisConeArm(self, p, v) == Some(Abs(XAxisConeExpr(self, p)))

YAxisConeExpr(self, p) ==
    LET tan_angle == Tan(self.angle)
        distance_to_apex == Sqrt(Add(Powi2(Sub(p.x, self.x)), Powi2(Sub(p.z, self.z))))
    IN  Sub(Abs(Sub(p.y, self.y)), Mul(distance_to_apex, tan_angle))

YAxisConeArm(self, p, v) == Some(Abs(YAxisConeExpr(self, p)))

ZAxisConeExpr(self, p) ==
    LET tan_angle == Tan(self.angle)
        distance_to_apex == Sqrt(Add(Powi2(Sub(p.x, self.x)), Powi2(Sub(p.y, self.y))))
    IN  Sub(Abs(Sub(p.z, self.z)), Mul(distance_to_apex, tan_angle))

ZAxisConeArm(self, p, v) == Some(Abs(ZAxisConeExpr(self, p)))

QuadricExpr(self, p) ==
    Add(Add(Add(Add(Add(Add(Add(Add(Add(
        Mul(self.a, Powi2(p.x)), Mul(self.b, Powi2(p.y))), Mul(self.c, Powi2(p.z))),
        Mul(Mul(self.d, p.x), p.y)), Mul(Mul(self.e, p.y), p.z)), Mul(Mul(self.f, p.x), p.z)),
        Mul(self.g, p.x)), Mul(self.h, p.y)), Mul(self.j, p.z)), self.k)

\* mutant: the final .abs() is missing
QuadricArmSigned(self, p, v) == Some(QuadricExpr(self, p))

QuadricArm(self, p, v) == Some(Abs(QuadricExpr(self, p)))

XAxisTorusExpr(self, p) ==
    LET dx == Sub(p.x, self.x0)
        dy == Sub(p.y, self.y0)
        dz == Sub(p.z, self.z0)
        distance_to_center == Abs(Sub(Sqrt(Add(Powi2(dy), Powi2(dz))), self.a))
    IN  Sub(Sqrt(Add(Powi2(distance_to_center), Powi2(dx))), self.c)

\* mutant: the final .abs() is missing
XAxisTorusArmSigned(self, p, v) == Some(XAxisTorusExpr(self, p))

XAxisTorusArm(self, p, v) == Some(Abs(XAxisTorusExpr(self, p)))

distance_to_surface(self, p, v) ==
    CASE self.kind = "Sphere"        -> SphereArm(self, p, v)
      [] self.kind = "XPlane"        -> XPlaneArm(self, p, v)
      [] self.kind = "YPlane"        -> YPlaneArm(self, p, v)
      [] self.kind = "ZPlane"        -> ZPlaneArm(self, p, v)
      [] self.kind = "Plane"         -> PlaneArm(self, p, v)
      [] self.kind = "XAxisCylinder" -> XAxisCylinderArm(self, p, v)
      [] self.kind = "YAxisCylinder" -> YAxisCylinderArm(self, p, v)
      [] self.kind = "ZAxisCylinder" -> ZAxisCylinderArm(self, p, v)
      [] self.kind = "XAxisCone"     -> XAxisConeArm(self, p, v)
      [] self.kind = "YAxisCone"     -> YAxisConeArm(self, p, v)
      [] self.kind = "ZAxisCone"     -> ZAxisConeArm(self, p, v)
      [] self.kind = "Quadric"       -> QuadricArm(self, p, v)
      [] self.kind = "XAxisTorus"    -> XAxisTorusArm(self, p, v)

---------------------------------------------------------------------------
(* mod tests: EPSILON and assert_approx_eq. *)

\* const EPSILON: f64 = 1e-9, as 1/EpsilonInv
EpsilonInv == 1000000000

\* d < EPSILON for d >= 0.  A d >= 1/2 is not below EPSILON; the test on 1/2 comes
\* first because it needs no number beyond 32 bits.
LtEpsilon(d) ==
    IF IsZero(d) THEN TRUE
    ELSE IF Ge0(Sub(d, Rat(1, 2))) THEN FALSE
    ELSE Sign(Sub(d, Rat(1, EpsilonInv))) < 0

\* whether the assertions of assert_approx_eq(a, b, EPSILON) pass
assert_approx_eq(a, b) ==
    CASE a.tag = "Some" /\ b.tag = "Some" -> LtEpsilon(Abs(Sub(a.val, b.val)))
      [] a.tag = "None" /\ b.tag = "None" -> TRUE
      [] OTHER -> FALSE

---------------------------------------------------------------------------
(* The inputs a caller can construct, within the bounds. *)

Points == {Point(x, y, z) : x \in 0 .. MaxCoord, y \in 0 .. MaxCoord, z \in 0 .. MaxCoord}

SignedPoints ==
    {Point(x, y, z) : x \in -MaxCoord .. MaxCoord, y \in -MaxCoord .. MaxCoord,
                      z \in -MaxCoord .. MaxCoord}

NearPoints ==
    {Point(x, y, z) : x \in 0 .. MaxCentre, y \in 0 .. MaxCentre, z \in 0 .. MaxCentre}

Centres == NearPoints

Dirs == -MaxDir .. MaxDir

Vectors == {Vector(dx, dy, dz) : dx \in Dirs, dy \in Dirs, dz \in Dirs}

\* two directions of the crate's tests
TestVectors == {Vector(0, 0, 0), Vector(1, 1, 1)}

\* directions along each axis and along the diagonal
ProbeVectors ==
    UNION {{Vector(d, 0, 0), Vector(0, d, 0), Vector(0, 0, d), Vector(d, d, d)} : d \in Dirs}

Radii == {Rat(n, 2) : n \in -1 .. MaxRadius}

Angles == {Atan(n, 1) : n \in -1 .. MaxTan} \cup {Atan(1, d) : d \in 2 .. MaxTan}

FRAC_PI_4 == Atan(1, 1)

Coefs == {Rat(i, 1) : i \in -MaxCoef .. MaxCoef}

Spheres == {Sphere(c.x, c.y, c.z, r) : c \in Centres, r \in Radii}

AxisPlanes ==
    UNION {{XPlane(Rat(o, 2)), YPlane(Rat(o, 2)), ZPlane(Rat(o, 2))} :
              o \in -MaxCoord .. MaxCoord}

Planes == {Plane(a, b, c, d) : a \in Coefs, b \in Coefs, c \in Coefs, d \in Coefs}

Cylinders == UNION {{XAxisCylinder(r), YAxisCylinder(r), ZAxisCylinder(r)} : r \in Radii}

Cones ==
    UNION {{XAxisCone(c.x, c.y, c.z, t), YAxisCone(c.x, c.y, c.z, t),
            ZAxisCone(c.x, c.y, c.z, t)} : c \in Centres, t \in Angles}

\* the polynomials with one term and a constant
Quadrics ==
    {Quadric([i \in 1 .. 10 |-> IF i = i1 THEN c1 ELSE IF i = 10 THEN c2 ELSE Zero]) :
        i1 \in 1 .. 10, c1 \in Coefs, c2 \in Coefs}

Tori ==
    {XAxisTorus(c.x, c.y, c.z, a, b, r) :
        c \in Centres, a \in Radii \ {Rat(-1, 2)}, b \in {Rat(1, 2), Rat(1, 1)}, r \in Radii}

---------------------------------------------------------------------------
(* A caller constructs a surface, a point and a direction and calls        *)
(* distance_to_surface once.                                               *)

Unset == [tag |-> "Unset"]

InitWith(surfaces, points, vectors) ==
    /\ surface \in surfaces
    /\ point \in points
    /\ vector \in vectors
    /\ result = Unset
    /\ pc = "call"

Call ==
    /\ pc = "call"
    /\ result' = distance_to_surface(surface, point, vector)
    /\ pc' = "done"
    /\ UNCHANGED <<surface, point, vector>>

Next == Call

InitSphere == InitWith(Spheres, Points, TestVectors)

SpecSphere == InitSphere /\ [][Next]_vars

InitAxisPlane == InitWith(AxisPlanes, NearPoints, Vectors)

SpecAxisPlane == InitAxisPlane /\ [][Next]_vars

InitPlane == InitWith(Planes, NearPoints, TestVectors)

SpecPlane == InitPlane /\ [][Next]_vars

InitCylinder == InitWith(Cylinders, SignedPoints, TestVectors)

SpecCylinder == InitCylinder /\ [][Next]_vars

InitCone == InitWith(Cones, Points, TestVectors)

SpecCone == InitCone /\ [][Next]_vars

InitQuadric == InitWith(Quadrics, Points, TestVectors)

SpecQuadric == InitQuadric /\ [][Next]_vars

InitTorus == InitWith(Tori, NearPoints, TestVectors)

SpecTorus == InitTorus /\ [][Next]_vars

\* the torus queries over the points of the sphere, cylinder and cone queries
InitTorusFar == InitWith(Tori, Points, TestVectors)

SpecTorusFar == InitTorusFar /\ [][Next]_vars

Init ==
    \/ InitSphere
    \/ InitAxisPlane
    \/ InitPlane
    \/ InitCylinder
    \/ InitCone
    \/ InitQuadric
    \/ InitTorus

Spec == Init /\ [][Next]_vars

---------------------------------------------------------------------------
(* Properties. *)

Done == pc = "done"

IsAxisPlane == surface.kind \in AxisPlaneKinds

\* the plane offset, the point's coordinate and the direction's component along
\* the axis of an axis-aligned plane
AxisOffset(self) ==
    CASE self.kind = "XPlane" -> self.x
      [] self.kind = "YPlane" -> self.y
      [] self.kind = "ZPlane" -> self.z

AxisCoord(self, p) ==
    CASE self.kind = "XPlane" -> p.x
      [] self.kind = "YPlane" -> p.y
      [] self.kind = "ZPlane" -> p.z

AxisDir(self, v) ==
    CASE self.kind = "XPlane" -> v.dx
      [] self.kind = "YPlane" -> v.dy
      [] self.kind = "ZPlane" -> v.dz

\* the next value after c in lo..hi, cyclically
Cycle(c, lo, hi) == Rat(IF c.a = hi THEN lo ELSE c.a + 1, 1)

\* p with the i-th (i = 1, 2) of its two coordinates off the plane's axis moved to
\* the next value: every point with p's coordinate along the axis is reached from
\* p by such steps
NextPoint(self, p, i) ==
    CASE self.kind = "XPlane" ->
             IF i = 1 THEN [p EXCEPT !.y = Cycle(p.y, 0, MaxCentre)]
             ELSE [p EXCEPT !.z = Cycle(p.z, 0, MaxCentre)]
      [] self.kind = "YPlane" ->
             IF i = 1 THEN [p EXCEPT !.x = Cycle(p.x, 0, MaxCentre)]
             ELSE [p EXCEPT !.z = Cycle(p.z, 0, MaxCentre)]
      [] self.kind = "ZPlane" ->
             IF i = 1 THEN [p EXCEPT !.x = Cycle(p.x, 0, MaxCentre)]
             ELSE [p EXCEPT !.y = Cycle(p.y, 0, MaxCentre)]

\* the same for the two components of a direction off the plane's axis
NextVector(self, v, i) ==
    CASE self.kind = "XPlane" ->
             IF i = 1 THEN [v EXCEPT !.dy = Cycle(v.dy, -MaxDir, MaxDir)]
             ELSE [v EXCEPT !.dz = Cycle(v.dz, -MaxDir, MaxDir)]
      [] self.kind = "YPlane" ->
             IF i = 1 THEN [v EXCEPT !.dx = Cycle(v.dx, -MaxDir, MaxDir)]
             ELSE [v EXCEPT !.dz = Cycle(v.dz, -MaxDir, MaxDir)]
      [] self.kind = "ZPlane" ->
             IF i = 1 THEN [v EXCEPT !.dx = Cycle(v.dx, -MaxDir, MaxDir)]
             ELSE [v EXCEPT !.dy = Cycle(v.dy, -MaxDir, MaxDir)]

\* the rational value v equals num/den (den # 0)
RatEq(v, num, den) == v.k = "surd" /\ v.b = 0 /\ v.a * den = num * v.q

\* C1: for an axis-aligned plane with offset o, point coordinate c and direction
\* component d along the plane's axis, the result is none if d = 0, the ray
\* parameter (o - c)/d if d # 0 and (o - c)/d >= 0 (0 included), and none if
\* (o - c)/d < 0; the other coordinates and components do not change it (moving
\* any one of them to its next value leaves the result as it is, in every state).
AxisPlaneContract ==
    (Done /\ IsAxisPlane) =>
        LET o   == AxisOffset(surface)
            c   == AxisCoord(surface, point)
            d   == AxisDir(surface, vector)
            \* (o - c)/d = num/den
            num == (o.a * c.q - c.a * o.q) * d.q
            den == o.q * c.q * d.a
        IN  /\ d.a = 0 => result = None
            /\ (d.a # 0 /\ num * den >= 0) =>
                   result.tag = "Some" /\ RatEq(result.val, num, den)
            /\ (d.a # 0 /\ num * den < 0) => result = None
            /\ \A i \in 1 .. 2 :
                   /\ distance_to_surface(surface, NextPoint(surface, point, i), vector)
                          = result
                   /\ distance_to_surface(surface, point, NextVector(surface, vector, i))
                          = result

\* a point on the plane, a direction against the axis: t = 0 is returned
AxisPlaneOnPlaneReached ==
    /\ Done /\ surface.kind = "XPlane"
    /\ Sign(vector.dx) < 0 /\ point.x = surface.x
    /\ result.tag = "Some" /\ IsZero(result.val)

\* C2: the result is none only for XPlane, YPlane and ZPlane; each of the other
\* ten variants returns a present value for every point, direction and parameter
\* choice (zero vector, zero or negative radius or angle, zero normal included).
NoneOnlyForAxisPlanes ==
    Done => /\ result \in {None} => IsAxisPlane
            /\ ~IsAxisPlane => result.tag = "Some"

ZeroNormal(self) == IsZero(self.a) /\ IsZero(self.b) /\ IsZero(self.c)

\* a general plane with a zero normal still yields a present value
ZeroNormalPlanePresent ==
    /\ Done /\ surface.kind = "Plane" /\ ZeroNormal(surface)
    /\ vector = Vector(0, 0, 0)
    /\ result.tag = "Some"

\* C3: a present value is non-negative, for every variant, point, direction and
\* parameter choice, provided a general Plane has (a, b, c) not all zero.
PresentIsNonNegative ==
    (Done /\ result.tag = "Some" /\ ~(surface.kind = "Plane" /\ ZeroNormal(surface)))
        => Ge0(result.val)

\* a quadric whose polynomial is negative at the point
NegativePolynomialReached ==
    /\ Done /\ surface.kind = "Quadric"
    /\ Sign(QuadricExpr(surface, point)) < 0
    /\ result.tag = "Some"

\* the expression an arm computes before its final step: the argument of the
\* final .abs(), and the ray parameter t of an axis-aligned plane
FinalExpr(self, p, v) ==
    CASE self.kind = "Sphere"        -> SphereExpr(self, p)
      [] self.kind = "XPlane"        -> XPlaneT(self, p, v)
      [] self.kind = "YPlane"        -> YPlaneT(self, p, v)
      [] self.kind = "ZPlane"        -> ZPlaneT(self, p, v)
      [] self.kind = "Plane"         -> PlaneExpr(self, p)
      [] self.kind = "XAxisCylinder" -> XAxisCylinderExpr(self, p)
      [] self.kind = "YAxisCylinder" -> YAxisCylinderExpr(self, p)
      [] self.kind = "ZAxisCylinder" -> ZAxisCylinderExpr(self, p)
      [] self.kind = "XAxisCone"     -> XAxisConeExpr(self, p)
      [] self.kind = "YAxisCone"     -> YAxisConeExpr(self, p)
      [] self.kind = "ZAxisCone"     -> ZAxisConeExpr(self, p)
      [] self.kind = "Quadric"       -> QuadricExpr(self, p)
      [] self.kind = "XAxisTorus"    -> XAxisTorusExpr(self, p)

\* the arm computes that expression: an axis-aligned plane does so only for a
\* direction with a non-zero component along its axis
HasFinalExpr == ~IsAxisPlane \/ ~IsZero(AxisDir(surface, vector))

\* the expression is a number and is negative
IsNegative(e) == e.k # "nan" /\ Sign(e) < 0

\* C4 as stated: for each of the 13 variants a query whose pre-absolute-value
\* expression is negative returns the magnitude of that expression.
AbsIsFinalStepOfEveryVariant ==
    (Done /\ HasFinalExpr) =>
        LET e == FinalExpr(surface, point, vector)
        IN  IsNegative(e) => result = Some(Neg(e))

\* C4, amended: each of the ten variants other than XPlane, YPlane and ZPlane
\* returns the magnitude of its pre-absolute-value expression (the expression
\* itself when it is non-negative, its negation when it is negative); the three
\* axis-aligned plane variants apply no absolute value, and return none when
\* their ray parameter t is negative.
AbsIsFinalStepExceptAxisPlanes ==
    (Done /\ HasFinalExpr) =>
        LET e == FinalExpr(surface, point, vector)
        IN  /\ (~IsAxisPlane /\ IsNegative(e)) => result = Some(Neg(e))
            /\ (~IsAxisPlane /\ Ge0(e)) => result = Some(e)
            /\ (IsAxisPlane /\ IsNegative(e)) => result = None
            /\ (IsAxisPlane /\ Ge0(e)) => result = Some(e)

\* a point inside the tube of a torus: the expression under the final .abs()
\* is negative
InsideTorusReached ==
    /\ Done /\ surface.kind = "XAxisTorus"
    /\ IsNegative(XAxisTorusExpr(surface, point))
    /\ result.tag = "Some" /\ ~IsZero(result.val)

\* |P - C|^2 for a sphere, an integer
CentreDistSq(self, p) ==
    (p.x.a - self.x.a) * (p.x.a - self.x.a) + (p.y.a - self.y.a) * (p.y.a - self.y.a)
        + (p.z.a - self.z.a) * (p.z.a - self.z.a)

\* v = abs(sqrt(sq) - r), stated without sqrt or abs: v >= 0, and v + r or r - v
\* is the non-negative number whose square is sq
IsAbsRootMinus(v, sq, r) ==
    /\ v.k = "surd" /\ Ge0(v)
    /\ \/ Ge0(Add(v, r)) /\ Mul(Add(v, r), Add(v, r)) = Rat(sq, 1)
       \/ Ge0(Sub(r, v)) /\ Mul(Sub(r, v), Sub(r, v)) = Rat(sq, 1)

\* C5: for a Sphere with centre C and radius r >= 0 the result is
\* abs(|P - C| - r), the same for every direction; it is 0 iff |P - C| = r;
\* centre (1,1,1), radius 1, point (2,2,2) gives sqrt(3) - 1.
SphereContract ==
    (Done /\ surface.kind = "Sphere" /\ Ge0(surface.radius)) =>
        LET sq == CentreDistSq(surface, point)
            r  == surface.radius
        IN  /\ result.tag = "Some"
            /\ IsAbsRootMinus(result.val, sq, r)
            /\ IsZero(result.val) <=> sq * r.q * r.q = r.a * r.a
            /\ \A v2 \in ProbeVectors : distance_to_surface(surface, point, v2) = result
            /\ (surface = Sphere(Rat(1, 1), Rat(1, 1), Rat(1, 1), Rat(1, 1))
                    /\ point = Point(2, 2, 2))
                   => result.val = [k |-> "surd", a |-> -1, b |-> 1, n |-> 3, q |-> 1]

\* the sphere of the crate's test
SphereTestReached ==
    /\ Done /\ surface = Sphere(Rat(1, 1), Rat(1, 1), Rat(1, 1), Rat(1, 1))
    /\ point = Point(2, 2, 2)
    /\ result.tag = "Some" /\ ~IsZero(result.val)

\* the scale factors of C6: n/d, n # 0
MaxScale == 2

Scales == {Rat(n, d) : n \in (-MaxScale .. MaxScale) \ {0}, d \in 1 .. 2}

\* C6: for a Plane (a, b, c, d) with (a, b, c) not all zero and every non-zero
\* k, Plane(k*a, k*b, k*c, k*d) gives the same result; the result is 0 iff
\* a*px + b*py + c*pz + d = 0.
PlaneScaleInvariance ==
    (Done /\ surface.kind = "Plane" /\ ~ZeroNormal(surface)) =>
        /\ result.tag = "Some"
        /\ \A k \in Scales :
               distance_to_surface(
                   Plane(Mul(k, surface.a), Mul(k, surface.b), Mul(k, surface.c),
                         Mul(k, surface.d)), point, vector) = result
        /\ IsZero(result.val) <=>
               surface.a.a * point.x.a + surface.b.a * point.y.a
                   + surface.c.a * point.z.a + surface.d.a = 0

\* a plane with an irrational normal length and a point off it
PlaneOffPlaneReached ==
    /\ Done /\ surface.kind = "Plane"
    /\ result.tag = "Some" /\ result.val.k = "surd" /\ result.val.b # 0

IsCylinder == surface.kind \in CylinderKinds

\* the fields an axis cylinder would carry for its axis centre, named as the
\* centre and apex fields of the sphere and the cones are
CylinderCentreFields(self) ==
    CASE self.kind = "XAxisCylinder" -> {"y", "z"}
      [] self.kind = "YAxisCylinder" -> {"x", "z"}
      [] self.kind = "ZAxisCylinder" -> {"x", "y"}

\* the axis centre read from those fields
CylinderCentre(self) ==
    CASE self.kind = "XAxisCylinder" -> <<self.y, self.z>>
      [] self.kind = "YAxisCylinder" -> <<self.x, self.z>>
      [] self.kind = "ZAxisCylinder" -> <<self.x, self.y>>

\* the squared transverse distance from p to the axis through (c1, c2), integers
TransverseDistSq(self, p, c1, c2) ==
    CASE self.kind = "XAxisCylinder" ->
             (p.y.a - c1) * (p.y.a - c1) + (p.z.a - c2) * (p.z.a - c2)
      [] self.kind = "YAxisCylinder" ->
             (p.x.a - c1) * (p.x.a - c1) + (p.z.a - c2) * (p.z.a - c2)
      [] self.kind = "ZAxisCylinder" ->
             (p.x.a - c1) * (p.x.a - c1) + (p.y.a - c2) * (p.y.a - c2)

\* p with its coordinate along the cylinder's axis replaced by c
WithAxial(self, p, c) ==
    CASE self.kind = "XAxisCylinder" -> [p EXCEPT !.x = Rat(c, 1)]
      [] self.kind = "YAxisCylinder" -> [p EXCEPT !.y = Rat(c, 1)]
      [] self.kind = "ZAxisCylinder" -> [p EXCEPT !.z = Rat(c, 1)]

\* C7 as stated: an axis cylinder carries an axis centre in its two transverse
\* coordinates and a radius, and the result is abs(transverse distance from the
\* point to that centre - radius).
CylinderCarriesAxisCentre ==
    (Done /\ IsCylinder) =>
        /\ CylinderCentreFields(surface) \subseteq DOMAIN surface
        /\ LET c == CylinderCentre(surface)
           IN  /\ result.tag = "Some"
               /\ IsAbsRootMinus(result.val,
                                 TransverseDistSq(surface, point, c[1].a, c[2].a),
                                 surface.radius)

\* C7, amended: an axis cylinder carries a radius only, and its axis is the
\* coordinate axis it is named after: the result is abs(transverse distance from
\* the point to that coordinate axis - radius), 0 iff that distance equals the
\* radius, the same for every direction and every value of the point's
\* coordinate along the axis.
CylinderAboutCoordinateAxis ==
    (Done /\ IsCylinder) =>
        LET sq == TransverseDistSq(surface, point, 0, 0)
            r  == surface.radius
        IN  /\ DOMAIN surface = {"kind", "radius"}
            /\ result.tag = "Some"
            /\ IsAbsRootMinus(result.val, sq, r)
            /\ IsZero(result.val) <=> (Ge0(r) /\ sq * r.q * r.q = r.a * r.a)
            /\ \A v2 \in ProbeVectors : distance_to_surface(surface, point, v2) = result
            /\ \A c \in -MaxCoord .. MaxCoord :
                   distance_to_surface(surface, WithAxial(surface, point, c), vector) = result

\* a point on a y-axis cylinder, away from the plane y = 0
OnYCylinderReached ==
    /\ Done /\ surface.kind = "YAxisCylinder"
    /\ ~IsZero(point.y) /\ ~IsZero(point.x)
    /\ result.tag = "Some" /\ IsZero(result.val)

IsCone == surface.kind \in ConeKinds

\* the point's offset from the apex along the cone's axis, an integer
AxialOffset(self, p) ==
    CASE self.kind = "XAxisCone" -> p.x.a - self.x.a
      [] self.kind = "YAxisCone" -> p.y.a - self.y.a
      [] self.kind = "ZAxisCone" -> p.z.a - self.z.a

\* the squared transverse distance from the point to the cone's axis, an integer
ApexTransverseDistSq(self, p) ==
    CASE self.kind = "XAxisCone" ->
             (p.y.a - self.y.a) * (p.y.a - self.y.a) + (p.z.a - self.z.a) * (p.z.a - self.z.a)
      [] self.kind = "YAxisCone" ->
             (p.x.a - self.x.a) * (p.x.a - self.x.a) + (p.z.a - self.z.a) * (p.z.a - self.z.a)
      [] self.kind = "ZAxisCone" ->
             (p.x.a - self.x.a) * (p.x.a - self.x.a) + (p.y.a - self.y.a) * (p.y.a - self.y.a)

\* x < y for two surds, of one field or of two
Less(x, y) ==
    IF SameField(x, y) THEN SignS(AddS(x, NegS(y))) < 0
    ELSE LET u  == AddS(x, Rat(-y.a, y.q))
             w  == MkSurd(0, y.b, y.n, y.q)
             su == SignS(u)
             sw == SignS(w)
             \* the sign of u*u - w*w
             sd == SignS(AddS(MulS(u, u), NegS(MulS(w, w))))
         IN  IF su <= 0 /\ sw > 0 THEN TRUE
             ELSE IF su >= 0 /\ sw < 0 THEN FALSE
             ELSE IF su > 0 THEN sd < 0
             ELSE sd > 0

\* C8: for an axis cone with 0 < angle < pi/2 the result is 0 exactly for the
\* points of the double cone whose half-angle, measured from the axis, is angle
\* (transverse distance = abs(axial offset) * tan(angle), that is transverse
\* distance^2 * q^2 = axial offset^2 * p^2 for tan(angle) = p/q), and at a fixed
\* axial offset a point whose transverse distance is further from that surface,
\* on the same side of it, has a strictly larger result.
ConeOfHalfAngleContract ==
    (Done /\ IsCone /\ surface.angle.p > 0) =>
        LET ax == AxialOffset(surface, point)
            sq == ApexTransverseDistSq(surface, point)
            t  == surface.angle
            \* the squared transverse distance of the cone at this axial offset
            on == ax * ax * t.p * t.p
        IN  /\ result.tag = "Some"
            /\ IsZero(result.val) <=> sq * t.q * t.q = on
            /\ \A p2 \in Points :
                   LET sq2 == ApexTransverseDistSq(surface, p2)
                   IN  (/\ AxialOffset(surface, p2) = ax
                        /\ \/ on <= sq * t.q * t.q /\ sq < sq2
                           \/ sq2 < sq /\ sq * t.q * t.q <= on)
                           => Less(result.val, distance_to_surface(surface, p2, vector).val)

\* the cone queries of the tests: apex at the origin, angle pi/4, the point's
\* coordinate along the axis 1 and its two transverse coordinates 2
IsConeTest ==
    /\ IsCone
    /\ surface.x = Zero /\ surface.y = Zero /\ surface.z = Zero
    /\ surface.angle = FRAC_PI_4
    /\ AxialOffset(surface, point) = 1
    /\ {point.x, point.y, point.z} = {Rat(1, 1), Rat(2, 1)}
    /\ ApexTransverseDistSq(surface, point) = 8

\* C9: each of the three cone tests passes: the result is present and within
\* EPSILON of sqrt(8).
ConeTestsPass ==
    (Done /\ IsConeTest) => assert_approx_eq(result, Some(Sqrt(Rat(8, 1))))

\* the torus query of the test
IsTorusTest ==
    /\ surface = XAxisTorus(Zero, Zero, Zero, Rat(1, 1), Rat(1, 2), Rat(1, 2))
    /\ point = Point(2, 2, 2)

\* C10: the torus test passes: the result is present and within EPSILON of
\* sqrt(2) - 0.5.
TorusTestPasses ==
    (Done /\ IsTorusTest) =>
        assert_approx_eq(result, Some(Sub(Sqrt(Rat(2, 1)), Rat(1, 2))))

====
